---- MODULE Spec2Model ----
(***************************************************************************)
(* bids-mosaic (bidsmosaic/mosaic.py): a dataset of volumetric images is   *)
(* scanned, one slice image is rendered per file into a per-category       *)
(* directory, and the directories are assembled into one PDF.              *)
(*                                                                         *)
(* Strings are sequences of one-character strings, so that replace(),      *)
(* basename(), relpath(), removesuffix() and sorted() are computed         *)
(* character by character as Python computes them.  An optional argument   *)
(* is a set: {} is None and {x} is the value x.                            *)
(***************************************************************************)
EXTENDS Integers, Sequences, FiniteSets, TLC

\* ------------------------------------------------------------------ bounds
\* Largest side of a cropped raster the plotting backend returns.
MaxDim == 4
\* Largest downsample factor tried.
MaxFactor == 3
\* Most files a scan of the dataset returns.
MaxFiles == 2

\* ------------------------------------------------------- program constants
\* img_height = 80 in create_mosaic_table.
img_height == 80
\* page_width = int(pdf.width): the default A4 page, 595.27pt wide, less the
\* 18pt left and right margins of create_pdf.
page_width == 559

None == {}

\* `if x:` on an optional number: None and 0 are false.
TruthyInt(o) == \E x \in o : x # 0
\* `if x:` on an optional string or path: None and "" are false.
TruthyStr(o) == \E x \in o : x # <<>>

\* ------------------------------------------------------------------ strings
\* The characters used, in code point order (' ' 32 ... 'x' 120).
CharOrder ==
  << " ", "-", ".", "/", "1", "2", ":", "A", "E", "F", "I",
     "a", "b", "c", "d", "e", "f", "g", "i", "l", "m", "n", "o", "p", "r",
     "s", "t", "u", "w", "x" >>

Ord(c) == CHOOSE i \in 1..Len(CharOrder) : CharOrder[i] = c

Sep == "/"
Sentinel == ":"
PngExt == << ".", "p", "n", "g" >>

\* str.replace(old, new) for one-character old and new.
Replace(s, old, new) == [i \in 1..Len(s) |-> IF s[i] = old THEN new ELSE s[i]]

\* str < str: Python compares code point by code point, a proper prefix first.
RECURSIVE StrLess(_, _)
StrLess(a, b) ==
  IF b = <<>> THEN FALSE
  ELSE IF a = <<>> THEN TRUE
  ELSE IF a[1] # b[1] THEN Ord(a[1]) < Ord(b[1])
  ELSE StrLess(Tail(a), Tail(b))

\* Mutant of Sorted: the paths are left in the order glob listed them (here
\* the descending one) instead of being sorted.
RECURSIVE Sorted_Unsorted(_)
Sorted_Unsorted(S) ==
  IF S = {} THEN <<>>
  ELSE LET m == CHOOSE x \in S : \A y \in S \ {x} : StrLess(y, x)
       IN  <<m>> \o Sorted_Unsorted(S \ {m})

\* sorted(names): ascending sequence of a finite set of strings.
RECURSIVE Sorted(_)
Sorted(S) ==
  IF S = {} THEN <<>>
  ELSE LET m == CHOOSE x \in S : \A y \in S \ {x} : StrLess(x, y)
       IN  <<m>> \o Sorted(S \ {m})

\* s.split("/") without the empty pieces.
RECURSIVE Split(_)
Split(s) ==
  IF s = <<>> THEN <<>>
  ELSE IF s[1] = Sep THEN Split(Tail(s))
  ELSE LET n == IF \E i \in 1..Len(s) : s[i] = Sep
                THEN (CHOOSE i \in 1..Len(s) :
                        s[i] = Sep /\ \A j \in 1..(i-1) : s[j] # Sep) - 1
                ELSE Len(s)
       IN  <<SubSeq(s, 1, n)>> \o Split(SubSeq(s, n + 1, Len(s)))

\* "/".join(parts)
RECURSIVE Join(_)
Join(parts) ==
  IF parts = <<>> THEN <<>>
  ELSE IF Len(parts) = 1 THEN parts[1]
  ELSE parts[1] \o <<Sep>> \o Join(Tail(parts))

\* os.path.basename(p): what follows the last separator.
Basename(p) ==
  LET cuts == {i \in 1..Len(p) : p[i] = Sep}
      last == IF cuts = {} THEN 0 ELSE CHOOSE i \in cuts : \A j \in cuts : j <= i
  IN  SubSeq(p, last + 1, Len(p))

\* str.removesuffix(suffix)
RemoveSuffix(s, suffix) ==
  IF Len(s) >= Len(suffix)
     /\ SubSeq(s, Len(s) - Len(suffix) + 1, Len(s)) = suffix
  THEN SubSeq(s, 1, Len(s) - Len(suffix))
  ELSE s

\* The process's working directory, the dataset root and the freesurfer root.
Cwd == << "/", "w" >>
DsRoot == << "/", "d" >>
FsRoot == << "/", "f" >>

\* The components of os.path.abspath(p): joined to the working directory when
\* relative, then normalised ("." and empty pieces dropped, ".." pops).
RECURSIVE NormParts(_, _)
NormParts(parts, acc) ==
  IF parts = <<>> THEN acc
  ELSE LET c == Head(parts)
       IN  IF c = <<".">> THEN NormParts(Tail(parts), acc)
           ELSE IF c = <<".", ".">>
           THEN NormParts(Tail(parts),
                          IF acc = <<>> THEN acc ELSE SubSeq(acc, 1, Len(acc) - 1))
           ELSE NormParts(Tail(parts), Append(acc, c))

AbsParts(p) ==
  NormParts(Split(IF p # <<>> /\ p[1] = Sep THEN p ELSE Cwd \o <<Sep>> \o p), <<>>)

\* len(commonprefix([s, p])) of two component lists.
CommonLen(s, p) ==
  CHOOSE i \in 0..Len(s) :
    /\ i <= Len(p)
    /\ \A j \in 1..i : s[j] = p[j]
    /\ (i < Len(s) /\ i < Len(p)) => s[i + 1] # p[i + 1]

\* [pardir] * (len(s) - i) + p[i:], joined; "." when nothing is left.
RelFrom(s, p, i) ==
  IF i = Len(s) /\ i = Len(p) THEN <<".">>
  ELSE Join([k \in 1..(Len(s) - i) |-> <<".", ".">>] \o SubSeq(p, i + 1, Len(p)))

RelParts(s, p) == RelFrom(s, p, CommonLen(s, p))

\* os.path.relpath(path, start)
RelPath(path, start) == RelParts(AbsParts(start), AbsParts(path))

\* ---------------------------------------------------------- slice renderer
\* Mutant of Round: a // f, the quotient rounded down.
Round_Floor(a, f) == a \div f

\* round(a / f) for f > 0: Python rounds a tie to the even neighbour.
Round(a, f) ==
  LET q == a \div f
      r == a % f
  IN  IF 2 * r < f THEN q
      ELSE IF 2 * r > f THEN q + 1
      ELSE IF q % 2 = 0 THEN q ELSE q + 1

\* Lines 54-58: the output file name of an image.
OutFile(img_path, ds_path, ds_root) ==
  IF TruthyStr(ds_root)
  THEN Replace(RelPath(img_path, ds_path), Sep, Sentinel) \o PngExt
  ELSE Basename(img_path) \o PngExt

\* Lines 74-77: (height, width) = new_png.size names the two sides the other
\* way round, and the new size keeps the order of .size.
Resized(height, width, f) == << Round(height, f), Round(width, f) >>
NewSize(size, downsample) ==
  IF TruthyInt(downsample)
  THEN Resized(size[1], size[2], CHOOSE x \in downsample : TRUE)
  ELSE size

\* What nb.load(img_path) can do: return an image, raise FileNotFoundError (no
\* such file, a dangling link), or raise another error (a file that is there
\* but is no readable image).
LoadOk == "ok"
LoadNotFound == "FileNotFoundError"
LoadUnreadable == "ImageFileError"
LoadOutcomes == {LoadOk, LoadNotFound, LoadUnreadable}

NoError == "none"

\* A directory is a function from file names to file contents.
EmptyDir == [n \in {} |-> 0]
PutFile(dir, name, content) ==
  [n \in (DOMAIN dir) \cup {name} |-> IF n = name THEN content ELSE dir[n]]

\* Lines 60-79: the image of img_path is saved as out_file with the size `size`.
Saved(out_dir, img_path, out_file, size) ==
  [raised |-> NoError, logged |-> FALSE,
   dir |-> PutFile(out_dir, out_file,
                   [src |-> img_path, w |-> size[1], h |-> size[2]]),
   out |-> {out_file}]

\* Mutant of create_slice_img: no except clause, FileNotFoundError propagates.
create_slice_img_NoExcept(out_dir, img_path, ds_path, ds_root, downsample, load, crop) ==
  IF load # LoadOk
  THEN [raised |-> load, logged |-> FALSE, dir |-> out_dir, out |-> None]
  ELSE Saved(out_dir, img_path, OutFile(img_path, ds_path, ds_root),
             NewSize(crop, downsample))

\* create_slice_img on the directory out_dir: `load` is what nb.load does and
\* `crop` the size of the cropped figure.  Returns the error raised (if any),
\* whether an error was logged, and the directory afterwards.
create_slice_img(out_dir, img_path, ds_path, ds_root, downsample, load, crop) ==
  IF load = LoadNotFound
  THEN [raised |-> NoError, logged |-> TRUE, dir |-> out_dir, out |-> None]
  ELSE IF load # LoadOk
  THEN [raised |-> load, logged |-> FALSE, dir |-> out_dir, out |-> None]
  ELSE Saved(out_dir, img_path, OutFile(img_path, ds_path, ds_root),
             NewSize(crop, downsample))

\* --------------------------------------------------------- report assembler
\* create_filename_caption: the text under a thumbnail.
create_filename_caption(img_path) ==
  RemoveSuffix(RelPath(Replace(Basename(img_path), Sentinel, Sep), <<".">>), PngExt)

\* create_sized_img: new_width = (new_height / height) * width, kept as the
\* fraction num/den; a zero height divides by zero.
SizedImgFails(img) == img.h = 0
create_sized_img(img_path, img, new_height) ==
  [path |-> img_path, height |-> new_height,
   num |-> new_height * img.w, den |-> img.h]

\* image_tup_list[i : i + num_col] for i in range(0, n, num_col)
RECURSIVE Chunks(_, _)
Chunks(list, k) ==
  IF list = <<>> THEN <<>>
  ELSE IF Len(list) <= k THEN <<list>>
  ELSE <<SubSeq(list, 1, k)>> \o Chunks(SubSeq(list, k + 1, Len(list)), k)

\* int(page_width / img_width) for img_width = num/den > 0.
NumCol(pw, first) == (pw * first.den) \div first.num

TableError(e) == [err |-> e, rows |-> <<>>, colWidths |-> 0]

\* Lines 131-135 and 149: the rows of the table.
TableRows(image_tup_list, num_col, pw) ==
  IF num_col = 0 THEN TableError("ZeroDivisionError")
  ELSE [err |-> NoError,
        rows |-> Chunks(image_tup_list, num_col),
        colWidths |-> pw \div num_col]

\* Lines 119-128: a thumbnail and its caption for every path of the list.
ImageTupList(d, dir, image_path_list) ==
  [i \in 1..Len(image_path_list) |->
     [img |-> create_sized_img(image_path_list[i],
                dir[SubSeq(image_path_list[i], Len(d) + 2, Len(image_path_list[i]))],
                img_height),
      caption |-> create_filename_caption(image_path_list[i])]]

\* Lines 129-131: the first thumbnail decides the number of columns.
TableOf(dir, image_tup_list, pw) ==
  IF \E n \in DOMAIN dir : SizedImgFails(dir[n])
  THEN TableError("ZeroDivisionError")
  ELSE IF image_tup_list = <<>> THEN TableError("IndexError")
  ELSE IF image_tup_list[1].img.num = 0 THEN TableError("ZeroDivisionError")
  ELSE TableRows(image_tup_list, NumCol(pw, image_tup_list[1].img), pw)

\* create_mosaic_table on the directory at path d with the content dir.
create_mosaic_table(d, dir, pw) ==
  TableOf(dir,
          ImageTupList(d, dir, Sorted({d \o <<Sep>> \o n : n \in DOMAIN dir})),
          pw)

\* The metadata argument's text: the empty string, text that is no JSON, JSON
\* that is no object (a list, a number, a string, null), or a JSON object
\* given by its members in the order written (a key may be written twice).
EmptyText == [kind |-> "empty", pairs |-> <<>>]
MalformedText == [kind |-> "malformed", pairs |-> <<>>]
NonObjectText == [kind |-> "nonobject", pairs |-> <<>>]
ObjectText(pairs) == [kind |-> "object", pairs |-> pairs]

\* `if metadata:`
TruthyText(o) == \E t \in o : t.kind # "empty"

\* list(dict.items()) of the dict json.loads builds from an object's members:
\* a key keeps the place of its first occurrence and the value of its last.
DictItems(pairs) ==
  LET firsts == {i \in 1..Len(pairs) : \A j \in 1..(i-1) : pairs[j][1] # pairs[i][1]}
      lastOf(k) == CHOOSE i \in 1..Len(pairs) :
                     pairs[i][1] = k /\ \A j \in (i+1)..Len(pairs) : pairs[j][1] # k
      RECURSIVE Items(_)
      Items(i) ==
        IF i > Len(pairs) THEN <<>>
        ELSE IF i \in firsts
        THEN << <<pairs[i][1], pairs[lastOf(pairs[i][1])][2]>> >> \o Items(i + 1)
        ELSE Items(i + 1)
  IN  Items(1)

\* Mutant of create_metadata_table: text that is no JSON object is swallowed
\* and gives an empty table.
create_metadata_table_Lenient(text) ==
  IF text.kind # "object"
  THEN [err |-> NoError, rows |-> <<>>]
  ELSE [err |-> NoError, rows |-> DictItems(text.pairs)]

\* create_metadata_table: json.loads raises on text that is no JSON, and
\* .items() raises on a value that is no dict.
create_metadata_table(text) ==
  IF text.kind \in {"empty", "malformed"}
  THEN [err |-> "JSONDecodeError", rows |-> <<>>]
  ELSE IF text.kind # "object"
  THEN [err |-> "AttributeError", rows |-> <<>>]
  ELSE [err |-> NoError, rows |-> DictItems(text.pairs)]

\* The flowables of the document.
ImagesSuffix == << " ", "I", "m", "a", "g", "e", "s" >>
MetadataTitle == << "M", "e", "t", "a", "d", "a", "t", "a" >>
Flowable(type, text, data, colWidths) ==
  [type |-> type, text |-> text, data |-> data, colWidths |-> colWidths]
Title(text) == Flowable("Title", text, <<>>, 0)
Spacer == Flowable("Spacer", <<>>, <<>>, 0)
PageBreak == Flowable("PageBreak", <<>>, <<>>, 0)
MosaicTable(t) == Flowable("Table", <<>>, t.rows, t.colWidths)
MetadataTable(t) == Flowable("Table", <<>>, t.rows, 0)

\* Mutant of Section: the page break after the grid is left out.
Section_NoPageBreak(d, t) ==
  << Title(Basename(d) \o ImagesSuffix), Spacer, MosaicTable(t) >>

\* Lines 194-202: the flowables of one category section.
Section(d, t) ==
  << Title(Basename(d) \o ImagesSuffix), Spacer, MosaicTable(t), PageBreak >>

\* Lines 193-202: the loop over glob(img_dir_path/*), in the order `listing`
\* of the directories' paths; the first error ends it.
RECURSIVE CategorySections(_, _, _)
AddSection(listing, tree, acc, t) ==
  IF t.err # NoError
  THEN [err |-> t.err, flowables |-> acc]
  ELSE CategorySections(Tail(listing), tree, acc \o Section(Head(listing), t))
CategorySections(listing, tree, acc) ==
  IF listing = <<>> THEN [err |-> NoError, flowables |-> acc]
  ELSE AddSection(listing, tree, acc,
         create_mosaic_table(Head(listing), tree[Basename(Head(listing))], page_width))

\* Lines 205-210: the Metadata section.
MetadataSection(cats, t) ==
  IF t.err # NoError
  THEN [err |-> t.err, flowables |-> cats.flowables]
  ELSE [err |-> NoError,
        flowables |-> cats.flowables \o
          << Title(MetadataTitle), Spacer, MetadataTable(t) >>]

\* Line 204: `if metadata:`.
WithMetadata(cats, metadata) ==
  IF cats.err # NoError THEN cats
  ELSE IF TruthyText(metadata)
  THEN MetadataSection(cats, create_metadata_table(CHOOSE x \in metadata : TRUE))
  ELSE cats

\* Lines 191-210: the flowables create_pdf hands to pdf.build, or the error
\* raised before it.
PdfFlowables(listing, tree, metadata) ==
  WithMetadata(CategorySections(listing, tree, <<>>), metadata)

\* -------------------------------------------------------------------- state
VARIABLES
  pc,       \* where the run is: "main", "mosaic", "layout", "anat",
            \* "anat_loop", "fs", "fs_loop", "pdf", "cleanup", "done",
            \* "failed"; "slice" and "sliced" around a lone create_slice_img
  args,     \* the parsed command line
  dataset,  \* the files on disk the two scans return
  todo,     \* the files the running loop has still to render, in its order
  tree,     \* the png directory: category name -> directory
  tempDir,  \* the TemporaryDirectory: "none", "exists" or "removed"
  doc,      \* the document at out_file: None, or {flowables} once built
  err,      \* the exception that ended the run, or NoError
  log,      \* the paths logging.error reported as not found
  calls,    \* the create_slice_img calls made so far (history)
  scans     \* the scans made so far: "index", "anat", "fs" (history)

vars == << pc, args, dataset, todo, tree, tempDir, doc, err, log, calls, scans >>

\* The png directory (temporary, --png-out-dir or --png-in-dir alike).
PngDir == << "/", "p" >>
Anatomical == << "A", "n", "a", "t", "o", "m", "i", "c", "a", "l" >>
Freesurfer == << "F", "r", "e", "e", "s", "u", "r", "f", "e", "r" >>
Extra == << "E", "x", "t", "r", "a" >>
CatPath(cat) == PngDir \o <<Sep>> \o cat

EmptyTree == [c \in {} |-> EmptyDir]
\* os.makedirs(path, exist_ok=True)
MakeDirs(t, cat) ==
  [c \in (DOMAIN t) \cup {cat} |-> IF c \in DOMAIN t THEN t[c] ELSE EmptyDir]
SetDir(t, cat, dir) == [t EXCEPT ![cat] = dir]

\* Files of the dataset, by path relative to the root they are scanned from.
\* a/t and b/t carry the same file name in two subject directories.
AnatRel == { << "a", "/", "t" >>, << "b", "/", "t" >>, << "a", "/", "u" >> }
FsPrefix1 == << "s", "u", "b", "-", "1", "/", "m", "r", "i", "/", "o", "r", "i", "g", "/" >>
FsPrefix2 == << "s", "u", "b", "-", "2", "/", "m", "r", "i", "/", "o", "r", "i", "g", "/" >>
FsRel == { FsPrefix1 \o << "x" >>, FsPrefix2 \o << "x" >>, FsPrefix1 \o << "a", ":", "b" >> }
AnatUniverse == { DsRoot \o <<Sep>> \o r : r \in AnatRel }
FsUniverse == { FsRoot \o <<Sep>> \o r : r \in FsRel }

\* The orders a scan can return a set of files in.
Orders(S) ==
  { q \in [1..Cardinality(S) -> S] : \A i, j \in 1..Cardinality(S) : i # j => q[i] # q[j] }

\* The cropped figure (width, height) plot_img and crop give for a file of the
\* dataset: rendering is a function of the file, and b/t and sub-2's x are
\* wide.  A lone call is tried on every size up to MaxDim.
WideFiles == { DsRoot \o << Sep, "b", Sep, "t" >>, FsRoot \o <<Sep>> \o FsPrefix2 \o << "x" >> }
CropOf(file) == IF file \in WideFiles THEN << 8, 2 >> ELSE << 2, 2 >>
AllCrops == (1..MaxDim) \X (1..MaxDim)

\* downsample=2 is the factor of test_run.
TestDownsample == 2

Metadata1 == ObjectText(<< << "k", "v" >> >>)
Metadata2 == ObjectText(<< << "k", "v" >>, << "j", "w" >>, << "k", "y" >> >>)

Fail(e) == /\ pc' = "failed"
           /\ err' = e

\* --------------------------------------------------------------- the run
\* Mutant of Main: --png-in-dir is ignored and the full pipeline always runs.
Main_NeverBypass ==
  /\ pc = "main"
  /\ pc' = "mosaic"
  /\ UNCHANGED << args, dataset, todo, tree, tempDir, doc, err, log, calls, scans >>

\* main, lines 320-331: without --png-in-dir the full pipeline, with it the
\* assembler alone.
Main ==
  /\ pc = "main"
  /\ pc' = IF ~TruthyStr(args.png_in_dir) THEN "mosaic" ELSE "pdf"
  /\ UNCHANGED << args, dataset, todo, tree, tempDir, doc, err, log, calls, scans >>

\* create_mosaic_pdf, lines 251-255: the png directory.
MakePngDir ==
  /\ pc = "mosaic"
  /\ tempDir' = IF TruthyStr(args.png_out_dir) THEN "none" ELSE "exists"
  /\ pc' = "layout"
  /\ UNCHANGED << args, dataset, todo, tree, doc, err, log, calls, scans >>

\* Line 257: BIDSLayout(dataset) indexes the dataset, or raises (no such
\* directory).
IndexDataset ==
  /\ pc = "layout"
  /\ \E ok \in BOOLEAN :
       IF ok THEN pc' = "anat" /\ err' = err ELSE Fail("ValueError")
  /\ scans' = scans \cup {"index"}
  /\ UNCHANGED << args, dataset, todo, tree, tempDir, doc, log, calls >>

\* Lines 259-260 and 217-224: with anat, layout.get lists the anatomical files
\* and the Anatomical directory is made.
ScanAnat ==
  /\ pc = "anat"
  /\ IF args.anat
     THEN \E files \in Orders(dataset.anat) :
            /\ todo' = files
            /\ tree' = MakeDirs(tree, Anatomical)
            /\ pc' = IF files = <<>> THEN "fs" ELSE "anat_loop"
            /\ scans' = scans \cup {"anat"}
     ELSE /\ pc' = "fs"
          /\ UNCHANGED << todo, tree, scans >>
  /\ UNCHANGED << args, dataset, tempDir, doc, err, log, calls >>

\* One turn of a render loop: create_slice_img on the next file.
Returned(cat, file, load, crop, r, after) ==
  /\ calls' = calls \cup {[cat |-> cat, path |-> file, load |-> load,
                           crop |-> crop, out |-> r.out]}
  /\ log' = IF r.logged THEN log \cup {file} ELSE log
  /\ tree' = SetDir(tree, cat, r.dir)
  /\ IF r.raised # NoError
     THEN Fail(r.raised) /\ todo' = todo
     ELSE /\ todo' = Tail(todo)
          /\ pc' = IF Tail(todo) = <<>> THEN after ELSE pc
          /\ err' = err

Render(cat, ds_path, ds_root, crops, after) ==
  /\ todo # <<>>
  /\ \E load \in LoadOutcomes, crop \in crops :
       Returned(cat, Head(todo), load, crop,
                create_slice_img(tree[cat], Head(todo), ds_path, ds_root,
                                 args.downsample, load, crop),
                after)
  /\ UNCHANGED << args, dataset, tempDir, doc, scans >>

\* Lines 226-227: ds_root is not passed.
RenderAnat ==
  /\ pc = "anat_loop"
  /\ Render(Anatomical, DsRoot, None, {CropOf(Head(todo))}, "fs")

\* Lines 261-262 and 232-235: with a freesurfer root, the Freesurfer directory
\* is made and glob lists sub-*/mri/orig/*.
ScanFs ==
  /\ pc = "fs"
  /\ IF TruthyStr(args.freesurfer)
     THEN \E files \in Orders(dataset.fs) :
            /\ todo' = files
            /\ tree' = MakeDirs(tree, Freesurfer)
            /\ pc' = IF files = <<>> THEN "pdf" ELSE "fs_loop"
            /\ scans' = scans \cup {"fs"}
     ELSE /\ pc' = "pdf"
          /\ UNCHANGED << todo, tree, scans >>
  /\ UNCHANGED << args, dataset, tempDir, doc, err, log, calls >>

\* Lines 235-238: ds_root=fs_dir.
RenderFs ==
  /\ pc = "fs_loop"
  /\ Render(Freesurfer, FsRoot, args.freesurfer, {CropOf(Head(todo))}, "pdf")

\* Line 212: pdf.build writes the document, unless an error came first.
Build(r) ==
  IF r.err # NoError
  THEN Fail(r.err) /\ doc' = doc
  ELSE /\ doc' = {r.flowables}
       /\ pc' = IF TruthyStr(args.png_in_dir) THEN "done" ELSE "cleanup"
       /\ err' = err

\* create_pdf, lines 179-212: glob lists the category directories in some
\* order; the flowables are collected, and pdf.build writes the document.
CreatePdf ==
  /\ pc = "pdf"
  /\ \E listing \in Orders({CatPath(c) : c \in DOMAIN tree}) :
       Build(PdfFlowables(listing, tree, args.metadata))
  /\ UNCHANGED << args, dataset, todo, tree, tempDir, log, calls, scans >>

\* Lines 266-267: temp_dir_obj.cleanup(), reached when create_pdf returned.
Cleanup ==
  /\ pc = "cleanup"
  /\ tempDir' = IF ~TruthyStr(args.png_out_dir) THEN "removed" ELSE tempDir
  /\ pc' = "done"
  /\ UNCHANGED << args, dataset, todo, tree, doc, err, log, calls, scans >>

\* The command lines of the run.
RunArgs ==
  [ png_in_dir : {None},
    png_out_dir : {None, {PngDir}},
    anat : BOOLEAN,
    freesurfer : {None, {FsRoot}},
    metadata : {None, {MalformedText}, {Metadata1}},
    downsample : {None, {TestDownsample}} ]

BypassArgs ==
  [ png_in_dir : {{PngDir}},
    png_out_dir : {None},
    anat : BOOLEAN,
    freesurfer : {None, {FsRoot}},
    metadata : {None, {EmptyText}, {MalformedText}, {NonObjectText},
                {Metadata1}, {Metadata2}},
    downsample : {None} ]

AtMost(S, n) == { T \in SUBSET S : Cardinality(T) <= n }
Datasets == [ anat : AtMost(AnatUniverse, MaxFiles), fs : AtMost(FsUniverse, MaxFiles) ]

Img(w, h) == [src |-> <<>>, w |-> w, h |-> h]
NameAT == << "a", ":", "t" >> \o PngExt
NameBT == << "b", ":", "t" >> \o PngExt
NameA == << "a" >> \o PngExt

\* Pre-rendered directories handed to --png-in-dir.
PreRendered ==
  { [c \in {Anatomical} |-> [n \in {NameAT, NameBT} |-> Img(2, 2)]],
    [c \in {Anatomical, Extra} |-> [n \in {NameAT} |-> Img(8, 2)]],
    [c \in {Anatomical, Extra} |->
       IF c = Extra THEN EmptyDir ELSE [n \in {NameAT} |-> Img(2, 2)]] }

Init ==
  /\ pc = "main"
  /\ \/ /\ args \in RunArgs
        /\ dataset \in Datasets
        /\ tree = EmptyTree
     \/ /\ args \in BypassArgs
        /\ dataset = [anat |-> AnatUniverse, fs |-> FsUniverse]
        /\ tree \in PreRendered
  /\ todo = <<>>
  /\ tempDir = "none"
  /\ doc = None
  /\ err = NoError
  /\ log = {}
  /\ calls = {}
  /\ scans = {}

Next ==
  \/ Main
  \/ MakePngDir
  \/ IndexDataset
  \/ ScanAnat
  \/ RenderAnat
  \/ ScanFs
  \/ RenderFs
  \/ CreatePdf
  \/ Cleanup

Spec == Init /\ [][Next]_vars

\* ------------------------------------------------------ one renderer call
\* create_slice_img alone, as create_anat_images calls it (no ds_root) or as
\* create_fs_images calls it (ds_root=fs_dir), on every file of the two
\* universes, every factor up to MaxFactor and every crop up to MaxDim.
SliceArgs ==
  [ png_in_dir : {None},
    png_out_dir : {{PngDir}},
    anat : {TRUE},
    freesurfer : {{FsRoot}},
    metadata : {None},
    downsample : {None} \cup { {f} : f \in 0..MaxFactor } ]

SliceInit ==
  /\ pc = "slice"
  /\ args \in SliceArgs
  /\ dataset = [anat |-> AnatUniverse, fs |-> FsUniverse]
  /\ \E file \in AnatUniverse \cup FsUniverse : todo = << file >>
  /\ tree = [c \in {Anatomical, Freesurfer} |-> EmptyDir]
  /\ tempDir = "none"
  /\ doc = None
  /\ err = NoError
  /\ log = {}
  /\ calls = {}
  /\ scans = {}

SliceCall ==
  /\ pc = "slice"
  /\ IF Head(todo) \in AnatUniverse
     THEN Render(Anatomical, DsRoot, None, AllCrops, "sliced")
     ELSE Render(Freesurfer, FsRoot, args.freesurfer, AllCrops, "sliced")

SpecSlice == SliceInit /\ [][SliceCall]_vars

\* ------------------------------------------------------ the assembler alone
\* create_pdf on a directory of one or two categories whose images carry
\* every width up to MaxDim + 3 (seven thumbnails of height 1 and width 1 fit
\* a page, one of width 7 does not), with every kind of metadata.
PdfArgs ==
  [ png_in_dir : {{PngDir}},
    png_out_dir : {None},
    anat : {TRUE},
    freesurfer : {None},
    metadata : {None, {EmptyText}, {MalformedText}, {NonObjectText},
                {Metadata1}, {Metadata2}},
    downsample : {None} ]

PdfNames == { NameAT, NameBT, NameA }
PdfDirs ==
  UNION { [names -> { Img(w, 1) : w \in 1..(MaxDim + 3) }] : names \in SUBSET PdfNames }
PdfTrees ==
  { [c \in {Anatomical} |-> d] : d \in PdfDirs }
    \cup { [c \in {Anatomical, Extra} |->
              IF c = Extra THEN [n \in {NameA} |-> Img(2, 2)] ELSE d] : d \in PdfDirs }

PdfInit ==
  /\ pc = "pdf"
  /\ args \in PdfArgs
  /\ dataset = [anat |-> {}, fs |-> {}]
  /\ tree \in PdfTrees
  /\ todo = <<>>
  /\ tempDir = "none"
  /\ doc = None
  /\ err = NoError
  /\ log = {}
  /\ calls = {}
  /\ scans = {}

SpecPdf == PdfInit /\ [][CreatePdf]_vars

\* ------------------------------------------------------------------- claims
Bypass == TruthyStr(args.png_in_dir)
MetadataSupplied == TruthyText(args.metadata)
FreesurferSupplied == TruthyStr(args.freesurfer)
Assembling == pc \in {"pdf", "cleanup", "done"}
RootOf(cat) == IF cat = Anatomical THEN DsRoot ELSE FsRoot
ImgPath(cat, name) == CatPath(cat) \o <<Sep>> \o name
CallsOf(cat) == { c \in calls : c.cat = cat }
Abs(x) == IF x < 0 THEN -x ELSE x

\* C1: without a caller-supplied png_out_dir, no run ends, normally or by an
\* error, with the temporary directory still present.
C1_TempDirDeletedOnEveryExit ==
  pc \in {"done", "failed"} => tempDir # "exists"

C3_EmptyCategoryCompletes ==
  (\E c \in DOMAIN tree : DOMAIN tree[c] = {}) => err # "IndexError"

C5_FilenameRoundTrip ==
  \A c \in calls : \A o \in c.out :
    create_filename_caption(ImgPath(c.cat, o)) = RelPath(c.path, RootOf(c.cat))

\* C6: two files of a category with different paths are written to different
\* output file names.
C6_OutputNamesCollisionFree ==
  \A c1, c2 \in calls :
    (c1.cat = c2.cat /\ c1.path # c2.path /\ c1.out # None /\ c2.out # None)
      => c1.out # c2.out

RECURSIVE Flatten(_)
Flatten(rows) == IF rows = <<>> THEN <<>> ELSE Head(rows) \o Flatten(Tail(rows))

NumCats == Cardinality(DOMAIN tree)
HasDuplicateKey(pairs) ==
  \E i, j \in 1..Len(pairs) : i # j /\ pairs[i][1] = pairs[j][1]

\* The rows of a metadata table show the members of the object: two columns,
\* every key once, in the order the keys first appear, each with the value
\* written last for it.
RowsShow(rows, pairs) ==
  /\ \A r \in 1..Len(rows) : Len(rows[r]) = 2
  /\ \A r, q \in 1..Len(rows) : r # q => rows[r][1] # rows[q][1]
  /\ { rows[r][1] : r \in 1..Len(rows) } = { pairs[i][1] : i \in 1..Len(pairs) }
  /\ \A r \in 1..Len(rows) :
       \E i \in 1..Len(pairs) :
         /\ pairs[i] = rows[r]
         /\ \A j \in (i + 1)..Len(pairs) : pairs[j][1] # rows[r][1]
  /\ \A r, q \in 1..Len(rows) :
       r < q => \E i \in 1..Len(pairs) :
                  /\ pairs[i][1] = rows[r][1]
                  /\ \A j \in 1..i : pairs[j][1] # rows[q][1]
  /\ ~HasDuplicateKey(pairs) => rows = pairs

\* C7: the document is, for each category directory, a title, its grid and a
\* page break, each category once; then, exactly when metadata is supplied, a
\* Metadata title and a two-column table of the pairs in their order, with no
\* page break after it.  One category and {"k":"v"} give the grid section and
\* the one-row table k | v.
C7_SectionSequence ==
  \A fl \in doc :
    /\ Len(fl) = 4 * NumCats + (IF MetadataSupplied THEN 3 ELSE 0)
    /\ \A i \in 1..NumCats :
         /\ fl[4 * i - 3].type = "Title"
         /\ \E c \in DOMAIN tree :
              /\ fl[4 * i - 3].text = c \o ImagesSuffix
              /\ { cell.img.path : cell \in
                     { Flatten(fl[4 * i - 1].data)[k] :
                         k \in 1..Len(Flatten(fl[4 * i - 1].data)) } }
                   = { ImgPath(c, n) : n \in DOMAIN tree[c] }
         /\ fl[4 * i - 2].type = "Spacer"
         /\ fl[4 * i - 1].type = "Table"
         /\ fl[4 * i].type = "PageBreak"
    /\ \A i, j \in 1..NumCats : i # j => fl[4 * i - 3].text # fl[4 * j - 3].text
    /\ MetadataSupplied =>
         /\ fl[4 * NumCats + 1].type = "Title"
         /\ fl[4 * NumCats + 1].text = MetadataTitle
         /\ fl[4 * NumCats + 2].type = "Spacer"
         /\ fl[4 * NumCats + 3].type = "Table"
         /\ \A t \in args.metadata :
              t.kind = "object" /\ RowsShow(fl[4 * NumCats + 3].data, t.pairs)
    /\ ~MetadataSupplied =>
         \A i \in 1..Len(fl) : fl[i].text # MetadataTitle
    /\ (NumCats = 1 /\ args.metadata = {Metadata1}) =>
         /\ Len(fl) = 7
         /\ fl[7].data = << << "k", "v" >> >>

\* C7 witness: a document of two categories and the metadata table of an
\* object in which a key is written twice.
C7_Witness ==
  /\ pc = "done"
  /\ NumCats = 2
  /\ args.metadata = {Metadata2}
  /\ \E fl \in doc : Len(fl) = 11 /\ Len(fl[11].data) = 2

\* r is round(a / f): an integer nearest to a / f, the even one on a tie.
IsRound(r, a, f) ==
  /\ 2 * Abs(f * r - a) <= f
  /\ 2 * Abs(f * r - a) = f => r % 2 = 0

\* C8: with a downsample factor f the saved image measures
\* (round(w / f), round(h / f)) for the cropped size (w, h); without one it
\* keeps the cropped size.
C8_DownsampleDimensions ==
  \A c \in calls : \A o \in c.out :
    IF TruthyInt(args.downsample)
    THEN \A f \in args.downsample :
           /\ IsRound(tree[c.cat][o].w, c.crop[1], f)
           /\ IsRound(tree[c.cat][o].h, c.crop[2], f)
    ELSE /\ tree[c.cat][o].w = c.crop[1]
         /\ tree[c.cat][o].h = c.crop[2]

\* C8 witness: a 3 x 4 crop saved with factor 2 measures 2 x 2 (1.5 rounds to
\* the even 2).
C8_Witness ==
  /\ pc = "sliced"
  /\ args.downsample = {2}
  /\ \E c \in calls : \E o \in c.out :
       /\ c.crop = << 3, 4 >>
       /\ tree[c.cat][o].w = 2
       /\ tree[c.cat][o].h = 2

\* C9: anatomical files are scanned and rendered exactly when anat is set,
\* freesurfer files exactly when a freesurfer root is supplied, each into its
\* own category; with a pre-rendered directory nothing is scanned or rendered;
\* and when assembly starts every render of the run has been made.
C9_ModeDecidesStages ==
  /\ Bypass => (calls = {} /\ scans = {} /\ todo = <<>> /\ tempDir = "none")
  /\ "anat" \in scans => (~Bypass /\ args.anat /\ Anatomical \in DOMAIN tree)
  /\ "fs" \in scans => (~Bypass /\ FreesurferSupplied /\ Freesurfer \in DOMAIN tree)
  /\ \A c \in calls :
       /\ c.cat = Anatomical => ("anat" \in scans /\ c.path \in dataset.anat)
       /\ c.cat = Freesurfer => ("fs" \in scans /\ c.path \in dataset.fs)
       /\ c.cat \in {Anatomical, Freesurfer}
       /\ \A o \in c.out : o \in DOMAIN tree[c.cat]
  /\ ((~Bypass /\ Assembling) \/ (~Bypass /\ doc # None)) =>
       /\ todo = <<>>
       /\ "index" \in scans
       /\ "anat" \in scans <=> args.anat
       /\ "fs" \in scans <=> FreesurferSupplied
       /\ { c.path : c \in CallsOf(Anatomical) } =
            (IF args.anat THEN dataset.anat ELSE {})
       /\ { c.path : c \in CallsOf(Freesurfer) } =
            (IF FreesurferSupplied THEN dataset.fs ELSE {})

\* C9 witness: a freesurfer-only run that rendered its files and finished,
\* over a dataset that does hold anatomical files.
C9_Witness ==
  /\ pc = "done"
  /\ ~Bypass
  /\ ~args.anat
  /\ dataset.anat # {}
  /\ CallsOf(Freesurfer) # {}
  /\ CallsOf(Anatomical) = {}

\* The column count of a grid whose first thumbnail is num/den wide: the
\* most thumbnails of that width that fit the page.
FitsPage(k, first) ==
  /\ k * first.num <= page_width * first.den
  /\ (k + 1) * first.num > page_width * first.den

\* The grid of category c: every image of the directory in exactly one cell,
\* row-major in ascending order of path, rows of k cells but for a shorter
\* last one.
IsSortedGrid(rows, c) ==
  LET cells == Flatten(rows)
  IN  /\ Len(cells) = Cardinality(DOMAIN tree[c])
      /\ { cells[i].img.path : i \in 1..Len(cells) }
           = { ImgPath(c, n) : n \in DOMAIN tree[c] }
      /\ \A i, j \in 1..Len(cells) :
           i < j => StrLess(cells[i].img.path, cells[j].img.path)
      /\ \E k \in 1..page_width :
           /\ FitsPage(k, cells[1].img)
           /\ \A r \in 1..Len(rows) : Len(rows[r]) >= 1 /\ Len(rows[r]) <= k
           /\ \A r \in 1..(Len(rows) - 1) : Len(rows[r]) = k

\* C10: whatever order the files were discovered and rendered in, each
\* category is one section and its grid is a function of the images in the
\* directory alone: all of them, once each, alphabetical by file name, no row
\* longer than the column count.
C10_LayoutIsSortedGrid ==
  \A fl \in doc :
    /\ { fl[4 * i - 3].text : i \in 1..NumCats } = { c \o ImagesSuffix : c \in DOMAIN tree }
    /\ \A i \in 1..NumCats : \A c \in DOMAIN tree :
         fl[4 * i - 3].text = c \o ImagesSuffix => IsSortedGrid(fl[4 * i - 1].data, c)

\* C10 witness: a run that rendered its files itself and laid a category out
\* in more than one row.
C10_Witness ==
  /\ ~Bypass
  /\ \E fl \in doc : \E i \in 1..NumCats :
       /\ Len(fl[4 * i - 1].data) >= 2
       /\ Cardinality(CallsOf(Anatomical)) >= 2

====
